---- MODULE Spec2Model ----
(***************************************************************************)
(* The ANALYSIS stage executor of the piped agent (package analysis) as a  *)
(* state machine: Executor.Execute with its deadline, error group,         *)
(* analyzers, stage metadata and analysis result store; and a single       *)
(* analyzer loop (static and dynamic) driven by arbitrary tick outcomes.   *)
(*                                                                         *)
(* Durations and instants are integers in seconds.  The clock advances in  *)
(* steps of thirty seconds, and every analyzer's interval is one step.     *)
(***************************************************************************)
EXTENDS Integers, Sequences, FiniteSets, TLC

\* ------------------------------------------------------------ bounds
\* The most check blocks (metrics + logs + https) one stage configures.
MaxBlocks == 2
\* The largest failureLimit an analyzer is configured with.
MaxFailureLimit == 1
\* The number of thirty-second clock steps a run may see.
MaxSteps == 2
\* The largest configured stage duration, in thirty-second steps.
MaxDuration == 2
\* The longest query of a template entry, in characters and actions.
MaxText == 2
\* The most points a query returns for one tick.
MaxPoints == 3
\* The most values in a sample of the rank-sum comparison.
MaxSample == 4
\* The most runs of Execute one stage sees (the first and its restarts).
MaxRuns == 2
\* The most manifests an application directory holds.
MaxManifests == 2

VARIABLES
  \* --- inputs of Execute (fixed for a run)
  optionsNil,           \* e.StageConfig.AnalysisStageOptions == nil
  duration,             \* options.Duration, seconds
  numBlocks,            \* len(options.Metrics) + len(options.Logs) + len(options.Https)
  origStatus,           \* e.Stage.Status, as read at line 159
  \* --- environment
  stopSignal,           \* sig.Signal(); sig.Context() is done iff it is not NONE
  stopWhileRunning,     \* the stop signal arrived while an analyzer was running
  now,                  \* wall clock, seconds
  metadata,             \* MetadataStore content for the stage
  latestResult,         \* AnalysisResultStore content
  \* --- Execute
  pc,                   \* position of Execute
  startTime,            \* e.startTime
  previousElapsedTime,  \* e.previousElapsedTime
  deadline,             \* deadline of context.WithTimeout (read once saveDeferred)
  timeout,              \* the timeout handed to context.WithTimeout
  cancelled,            \* the deferred cancel() ran
  saveDeferred,         \* defer e.saveElapsedTime(ctx) is installed
  analyzers,            \* the analyzers handed to eg.Go, in spawn order
  egErr,                \* errgroup: the error errOnce kept
  egWaited,             \* eg.Wait returned (it cancels the group context)
  status,               \* the status Execute returns
  exit,                 \* which return statement Execute took
  reportedErr,          \* the error "Analysis failed: %s" logged
  setCalls,             \* values SetStageMetadata was called with, and when
  putCalls,             \* records PutLatestAnalysisResult was called with
  \* --- a single analyzer run on its own
  sa,                   \* a static analyzer
  da,                   \* a dynamicMetricsAnalyzer
  hctx,                 \* the context given to both: "live", or why it is done
  hist,                 \* what the static analyzer's latest tick did
  \* --- one call of a function of the package on its own
  cs                    \* the call: its name, its arguments and what it returned

execVars == <<optionsNil, duration, numBlocks, origStatus, stopSignal,
              stopWhileRunning, now, metadata,
              latestResult, pc, startTime, previousElapsedTime, deadline, timeout,
              cancelled,
              saveDeferred, analyzers, egErr, egWaited, status, exit, reportedErr,
              setCalls, putCalls>>
runVars == <<sa, da, hctx, hist, cs>>
vars == <<execVars, runVars>>

\* ------------------------------------------------------------ values
STAGE_NOT_STARTED_YET == "STAGE_NOT_STARTED_YET"
STAGE_RUNNING == "STAGE_RUNNING"
STAGE_SUCCESS == "STAGE_SUCCESS"
STAGE_FAILURE == "STAGE_FAILURE"
STAGE_CANCELLED == "STAGE_CANCELLED"
NoStatus == "none"

StopSignalNone == "NONE"
StopSignalTerminate == "TERMINATE"
StopSignalCancel == "CANCEL"

NoErr == <<>>            \* a nil error

NoCall == [op |-> "none"]   \* no function is being called on its own

Outcomes == {"ok", "breach", "nodata", "error"}


\* ------------------------------------------------------------ durations
\* time.Duration.String() of a whole number of seconds, as the sequence of its
\* <<number, unit>> tokens: "1m30s" is << <<1,"m">>, <<30,"s">> >>, "-30s" is
\* << <<0,"-">>, <<30,"s">> >>.  Hours are printed only when not zero, minutes
\* only when hours or minutes are not zero, seconds always.
DurationString(d) ==
  LET u == IF d < 0 THEN -d ELSE d
      s == u % 60
      m == (u \div 60) % 60
      h == u \div 3600
      body == IF h > 0 THEN << <<h, "h">>, <<m, "m">>, <<s, "s">> >>
              ELSE IF m > 0 THEN << <<m, "m">>, <<s, "s">> >>
              ELSE << <<s, "s">> >>
  IN IF d < 0 THEN << <<0, "-">> >> \o body ELSE body

UnitSeconds(u) == CASE u = "h" -> 3600 [] u = "m" -> 60 [] u = "s" -> 1 [] OTHER -> 0
KnownUnits == {"h", "m", "s"}

RECURSIVE SumTokens(_)
SumTokens(toks) ==
  IF toks = <<>> THEN 0
  ELSE toks[1][1] * UnitSeconds(toks[1][2]) + SumTokens(Tail(toks))

\* time.ParseDuration: an optional sign, then one or more number+unit pairs;
\* an empty string, a missing unit or an unknown unit is an error.
ParseDuration(str) ==
  LET neg == Len(str) > 0 /\ str[1][2] = "-"
      body == IF neg THEN Tail(str) ELSE str
  IN IF body = <<>> \/ \E i \in 1..Len(body) : body[i][2] \notin KnownUnits
       THEN [ok |-> FALSE, d |-> 0]
       ELSE [ok |-> TRUE, d |-> IF neg THEN -SumTokens(body) ELSE SumTokens(body)]

\* ------------------------------------------------------------ stage metadata
elapsedTimeKey == "elapsedTime"
EmptyMap == [k \in {} |-> <<>>]
NoMetadata == [ok |-> FALSE, m |-> EmptyMap]
MetadataOf(str) == [ok |-> TRUE, m |-> (elapsedTimeKey :> str)]

\* What the metadata store may hold for the stage when a run starts: nothing,
\* or the elapsed time an earlier run of the stage saved.
StoredMetadata == {NoMetadata, MetadataOf(DurationString(30))}

retrievePreviousElapsedTime(md) ==
  IF ~md.ok THEN 0
  ELSE IF elapsedTimeKey \notin DOMAIN md.m THEN 0
  ELSE LET et == ParseDuration(md.m[elapsedTimeKey])
       IN IF ~et.ok THEN 0 ELSE et.d

\* A timeout that subtracts whatever was decoded, negative values included.
TimeoutAlwaysSubtracts(dur, prev) == dur - prev

\* timeout := options.Duration; if previousElapsedTime > 0 { timeout -= it }
Timeout(dur, prev) == IF prev > 0 THEN dur - prev ELSE dur

\* An elapsed time that forgets what earlier runs of the stage spent.
ElapsedTimeNoPrev(t, start, prev) == t - start

\* elapsedTime := time.Since(e.startTime) + e.previousElapsedTime
ElapsedTime(t, start, prev) == (t - start) + prev

\* ------------------------------------------------------------ stop signal
\* executor.DetermineStageStatus(sig, original, got)
DetermineStageStatus(sig, ori, got) ==
  CASE sig = StopSignalNone -> got
    [] sig = StopSignalTerminate -> ori
    [] sig = StopSignalCancel -> STAGE_CANCELLED
    [] OTHER -> STAGE_FAILURE

\* ------------------------------------------------------------ analyzer
\* newAnalyzer(id, providerType, query, runner, interval, failureLimit,
\* skipOnNoData, ...), started at instant t by analyzer.run.
NewAnalyzer(i, interval, failureLimit, skipOnNoData, t) ==
  [id |-> <<"analyzer", i>>, pc |-> "waiting", interval |-> interval,
   failureLimit |-> failureLimit, skipOnNoData |-> skipOnNoData,
   consecutiveFailures |-> 0, nextTick |-> t + interval, err |-> FALSE,
   evaluated |-> FALSE]

\* The ticker coalesces missed ticks: the next tick is the first period
\* boundary after t.
RECURSIVE NextTick(_, _, _)
NextTick(due, interval, t) ==
  IF due + interval > t THEN due + interval ELSE NextTick(due + interval, interval, t)

\* A comparison that fails one tick early.
FailureLimitReached(n, limit) == n >= limit

\* A comparison that tolerates one more failing tick.
FailureLimitPassed(n, limit) == n > limit + 1

\* consecutiveFailures > failureLimit
FailureLimitExceeded(n, limit) == n > limit

\* One tick's classification of the runner's outcome.
Classify(a, outcome) ==
  IF outcome = "nodata" /\ a.skipOnNoData
    THEN [a EXCEPT !.consecutiveFailures = 0, !.pc = "waiting"]
  ELSE IF outcome = "ok"
    THEN [a EXCEPT !.consecutiveFailures = 0, !.pc = "waiting"]
  ELSE LET n == a.consecutiveFailures + 1
       IN IF FailureLimitExceeded(n, a.failureLimit)
            THEN [a EXCEPT !.consecutiveFailures = n, !.pc = "failed", !.err = TRUE]
            ELSE [a EXCEPT !.consecutiveFailures = n, !.pc = "waiting"]

\* The select of the loop: a tick is taken only while the context is live.
TickTaken(a, t) ==
  [a EXCEPT !.pc = "evaluating", !.evaluated = TRUE,
            !.nextTick = NextTick(a.nextTick, a.interval, t)]

\* case <-ctx.Done(): return nil
ReturnNil(a) == [a EXCEPT !.pc = "done"]

\* The runner returned: the context is polled before the outcome is classified.
Evaluated(a, outcome, ctxDone) == IF ctxDone THEN ReturnNil(a) ELSE Classify(a, outcome)

\* ------------------------------------------------------------ Execute
\* The analyzer settings the blocks of a stage configure: the strictest (no
\* failure tolerated, no-data counted) and the most lenient.
BlockConfigs ==
  {[failureLimit |-> 0, skipOnNoData |-> FALSE],
   [failureLimit |-> MaxFailureLimit, skipOnNoData |-> TRUE]}

DeadlineExpiredLate == saveDeferred /\ now >= deadline + 30
DeadlineExpired == saveDeferred /\ now >= deadline

\* The context of errgroup.WithContext(ctx): done when its parent is (stop
\* signal, deadline, the deferred cancel), when a task returned an error, or
\* when Wait returned.
GroupCtxDone ==
  \/ stopSignal # StopSignalNone
  \/ DeadlineExpired
  \/ cancelled
  \/ egErr # NoErr
  \/ egWaited

\* A group that keeps the last error handed to it.
EgSetErrLast(cur, e) == e

\* errgroup: errOnce keeps the first error handed to it.
EgSetErr(cur, e) == IF cur = NoErr THEN e ELSE cur

\* A verdict that ignores the error of the group.
StatusAfterWaitIgnoresErr(err, sig, ori) ==
  DetermineStageStatus(sig, ori, STAGE_SUCCESS)

\* A verdict that reports an expired deadline as a failure.
StatusAfterWaitDeadlineFails(err, sig, ori) ==
  IF err # NoErr \/ DeadlineExpired THEN STAGE_FAILURE
  ELSE DetermineStageStatus(sig, ori, STAGE_SUCCESS)

\* Lines 154-162: the status once eg.Wait returned err.
StatusAfterWait(err, sig, ori) ==
  IF err # NoErr THEN STAGE_FAILURE
  ELSE DetermineStageStatus(sig, ori, STAGE_SUCCESS)

ExecInit ==
  /\ optionsNil \in BOOLEAN
  /\ duration \in {30 * k : k \in 1..MaxDuration}
  /\ numBlocks \in 0..MaxBlocks
  /\ optionsNil => (duration = 30 /\ numBlocks = 0)
  /\ origStatus = NoStatus
  /\ stopSignal = StopSignalNone
  /\ stopWhileRunning = FALSE
  /\ now = 30
  /\ metadata \in StoredMetadata
  /\ latestResult = <<>>
  /\ pc = "start"
  /\ startTime = 0
  /\ previousElapsedTime = 0
  /\ deadline = 0
  /\ timeout = 0
  /\ cancelled = FALSE
  /\ saveDeferred = FALSE
  /\ analyzers = <<>>
  /\ egErr = NoErr
  /\ egWaited = FALSE
  /\ status = NoStatus
  /\ exit = "none"
  /\ reportedErr = NoErr
  /\ setCalls = <<>>
  /\ putCalls = <<>>

\* A return statement before the defers are installed.
ReturnEarly(st, why) ==
  /\ pc' = "returned"
  /\ status' = st
  /\ exit' = why

\* A save that forgets the time earlier runs spent.
saveElapsedTimeOfRunOnly ==
  \E ok \in BOOLEAN :
    LET str == DurationString(now - startTime) IN
    /\ setCalls' = Append(setCalls,
                      [key |-> elapsedTimeKey, value |-> str, at |-> now, ok |-> ok])
    /\ metadata' = IF ok THEN MetadataOf(str) ELSE metadata

\* saveElapsedTime (179-187): SetStageMetadata is called with the elapsed time
\* as a duration string; a failure of the store is only logged.
saveElapsedTime ==
  \E ok \in BOOLEAN :
    LET str == DurationString(ElapsedTime(now, startTime, previousElapsedTime)) IN
    /\ setCalls' = Append(setCalls,
                      [key |-> elapsedTimeKey, value |-> str, at |-> now, ok |-> ok])
    /\ metadata' = IF ok THEN MetadataOf(str) ELSE metadata

\* A return after the defers whose deferred saveElapsedTime is missing.
ReturnLateUnsaved(st, why) ==
  /\ pc' = "returned"
  /\ status' = st
  /\ exit' = why
  /\ cancelled' = TRUE
  /\ UNCHANGED <<setCalls, metadata>>

\* A return statement after the defers are installed (109, 112): they run last
\* installed first, cancel() and then saveElapsedTime.
ReturnLate(st, why) ==
  /\ pc' = "returned"
  /\ status' = st
  /\ exit' = why
  /\ cancelled' = TRUE
  /\ saveElapsedTime

\* Lines 78-84.
ExecStart ==
  /\ pc = "start"
  /\ startTime' = now
  /\ IF optionsNil
       THEN ReturnEarly(STAGE_FAILURE, "noOptions")
       ELSE pc' = "getDS" /\ UNCHANGED <<status, exit>>
  /\ UNCHANGED <<optionsNil, duration, numBlocks, origStatus, stopSignal,
                 stopWhileRunning, now, metadata,
                 latestResult, previousElapsedTime, deadline, timeout,
                 cancelled, saveDeferred,
                 analyzers, egErr, egWaited, reportedErr, setCalls, putCalls>>
  /\ UNCHANGED runVars

\* Lines 86-92.
ExecGetDS ==
  /\ pc = "getDS"
  /\ \E ok \in BOOLEAN :
       IF ok THEN pc' = "loadTemplate" /\ UNCHANGED <<status, exit>>
       ELSE ReturnEarly(STAGE_FAILURE, "dsError")
  /\ UNCHANGED <<optionsNil, duration, numBlocks, origStatus, stopSignal,
                 stopWhileRunning, now, metadata,
                 latestResult, startTime, previousElapsedTime, deadline, timeout,
                 cancelled,
                 saveDeferred, analyzers, egErr, egWaited, reportedErr, setCalls,
                 putCalls>>
  /\ UNCHANGED runVars

\* Lines 94-101.
ExecLoadTemplate ==
  /\ pc = "loadTemplate"
  /\ \E r \in {"loaded", "notFound", "error"} :
       IF r = "error" THEN ReturnEarly(STAGE_FAILURE, "templateError")
       ELSE pc' = "timeout" /\ UNCHANGED <<status, exit>>
  /\ UNCHANGED <<optionsNil, duration, numBlocks, origStatus, stopSignal,
                 stopWhileRunning, now, metadata,
                 latestResult, startTime, previousElapsedTime, deadline, timeout,
                 cancelled,
                 saveDeferred, analyzers, egErr, egWaited, reportedErr, setCalls,
                 putCalls>>
  /\ UNCHANGED runVars

\* Lines 103-114.
ExecTimeout ==
  /\ pc = "timeout"
  /\ previousElapsedTime' = retrievePreviousElapsedTime(metadata)
  /\ timeout' = Timeout(duration, previousElapsedTime')
  /\ deadline' = now + timeout'
  /\ saveDeferred' = TRUE
  /\ pc' = "spawn"
  /\ UNCHANGED <<optionsNil, duration, numBlocks, origStatus, stopSignal,
                 stopWhileRunning, now, metadata,
                 latestResult, startTime, cancelled, analyzers, egErr, egWaited,
                 status, exit, reportedErr, setCalls, putCalls>>
  /\ UNCHANGED runVars

\* A spawn loop whose return on a construction failure reports success.
ExecSpawnFailureSucceeds ==
  /\ pc = "spawn"
  /\ Len(analyzers) < numBlocks
  /\ LET i == Len(analyzers) + 1 IN
     \E constructed \in BOOLEAN :
       IF constructed
         THEN /\ \E c \in BlockConfigs :
                   analyzers' = Append(analyzers,
                                  NewAnalyzer(i, 30, c.failureLimit, c.skipOnNoData, now))
              /\ UNCHANGED <<pc, status, exit, cancelled, setCalls, metadata>>
         ELSE /\ ReturnLate(STAGE_SUCCESS, "spawnError")
              /\ UNCHANGED analyzers
  /\ UNCHANGED <<optionsNil, duration, numBlocks, origStatus, stopSignal,
                 stopWhileRunning, now, latestResult, startTime, previousElapsedTime,
                 deadline, timeout,
                 saveDeferred, egErr, egWaited, reportedErr, putCalls>>
  /\ UNCHANGED runVars

\* Lines 117-152: one turn of the three loops, constructing and starting the
\* analyzer of the next block, or returning when its construction fails.
ExecSpawn ==
  /\ pc = "spawn"
  /\ Len(analyzers) < numBlocks
  /\ LET i == Len(analyzers) + 1 IN
     \E constructed \in BOOLEAN :
       IF constructed
         THEN /\ \E c \in BlockConfigs :
                   analyzers' = Append(analyzers,
                                  NewAnalyzer(i, 30, c.failureLimit, c.skipOnNoData, now))
              /\ UNCHANGED <<pc, status, exit, cancelled, setCalls, metadata>>
         ELSE /\ ReturnLate(STAGE_FAILURE, "spawnError")
              /\ UNCHANGED analyzers
  /\ UNCHANGED <<optionsNil, duration, numBlocks, origStatus, stopSignal,
                 stopWhileRunning, now, latestResult, startTime, previousElapsedTime,
                 deadline, timeout,
                 saveDeferred, egErr, egWaited, reportedErr, putCalls>>
  /\ UNCHANGED runVars

\* Lines 154-162: eg.Wait returns once every task returned.
ExecWait ==
  /\ pc = "spawn"
  /\ Len(analyzers) = numBlocks
  /\ \A a \in 1..Len(analyzers) : analyzers[a].pc = "done"
  /\ egWaited' = TRUE
  /\ reportedErr' = egErr
  /\ \E ori \in {STAGE_NOT_STARTED_YET, STAGE_RUNNING} :
       LET st == StatusAfterWait(egErr, stopSignal, ori) IN
       /\ origStatus' = ori
       /\ IF egErr # NoErr THEN ReturnLate(st, "analysisFailed")
          ELSE IF st # STAGE_SUCCESS THEN ReturnLate(st, "stopped")
          ELSE /\ pc' = "put" /\ status' = st
               /\ UNCHANGED <<exit, cancelled, setCalls, metadata>>
  /\ UNCHANGED <<optionsNil, duration, numBlocks, stopSignal, stopWhileRunning, now,
                 latestResult, startTime, previousElapsedTime, deadline, timeout,
                 saveDeferred, analyzers, egErr, putCalls>>
  /\ UNCHANGED runVars

\* A success path that returns without storing the analysis result.
ExecPutResultSkipped ==
  /\ pc = "put"
  /\ UNCHANGED <<putCalls, latestResult>>
  /\ ReturnLate(status, "success")
  /\ UNCHANGED <<optionsNil, duration, numBlocks, origStatus, stopSignal,
                 stopWhileRunning, now, startTime, previousElapsedTime, deadline,
                 timeout, saveDeferred, analyzers, egErr, egWaited, reportedErr>>
  /\ UNCHANGED runVars

\* A success path that turns a failed PutLatestAnalysisResult into a failure.
ExecPutResultFailing ==
  /\ pc = "put"
  /\ \E ok \in BOOLEAN :
       LET rec == [startTime |-> startTime, ctxDone |-> GroupCtxDone, ok |-> ok] IN
       /\ putCalls' = Append(putCalls, rec)
       /\ latestResult' = IF ok THEN <<[startTime |-> startTime]>> ELSE latestResult
       /\ ReturnLate(IF ok THEN status ELSE STAGE_FAILURE, "success")
  /\ UNCHANGED <<optionsNil, duration, numBlocks, origStatus, stopSignal,
                 stopWhileRunning, now, startTime, previousElapsedTime, deadline,
                 timeout, saveDeferred, analyzers, egErr, egWaited, reportedErr>>
  /\ UNCHANGED runVars

\* Lines 164-171.
ExecPutResult ==
  /\ pc = "put"
  /\ \E ok \in BOOLEAN :
       LET rec == [startTime |-> startTime, ctxDone |-> GroupCtxDone, ok |-> ok] IN
       /\ putCalls' = Append(putCalls, rec)
       /\ latestResult' = IF ok THEN <<[startTime |-> startTime]>> ELSE latestResult
  /\ ReturnLate(status, "success")
  /\ UNCHANGED <<optionsNil, duration, numBlocks, origStatus, stopSignal,
                 stopWhileRunning, now, startTime, previousElapsedTime, deadline, timeout,
                 saveDeferred, analyzers, egErr, egWaited, reportedErr>>
  /\ UNCHANGED runVars

\* The pipeline hands a stop signal to the stage: sig.Context() is done.
StopSignalArrives ==
  /\ stopSignal = StopSignalNone
  /\ pc # "returned"
  /\ stopSignal' \in {StopSignalTerminate, StopSignalCancel}
  /\ stopWhileRunning' =
       (pc = "spawn" /\ \E a \in 1..Len(analyzers) :
                          analyzers[a].pc \in {"waiting", "evaluating"})
  /\ UNCHANGED <<optionsNil, duration, numBlocks, origStatus, now, metadata,
                 latestResult, pc, startTime, previousElapsedTime, deadline, timeout,
                 cancelled,
                 saveDeferred, analyzers, egErr, egWaited, status, exit, reportedErr,
                 setCalls, putCalls>>
  /\ UNCHANGED runVars

\* The clock, from the moment Execute is entered until it returns.
AdvanceTime ==
  /\ pc \notin {"start", "returned"}
  /\ now < startTime + 30 * MaxSteps
  /\ now' = now + 30
  /\ UNCHANGED <<optionsNil, duration, numBlocks, origStatus, stopSignal,
                 stopWhileRunning, metadata,
                 latestResult, pc, startTime, previousElapsedTime, deadline, timeout,
                 cancelled,
                 saveDeferred, analyzers, egErr, egWaited, status, exit, reportedErr,
                 setCalls, putCalls>>
  /\ UNCHANGED runVars

AnalyzerFrame ==
  UNCHANGED <<optionsNil, duration, numBlocks, origStatus, stopSignal,
                 stopWhileRunning, now, metadata,
              latestResult, pc, startTime, previousElapsedTime, deadline, timeout,
              cancelled,
              saveDeferred, egWaited, status, exit, reportedErr, setCalls, putCalls>>

\* case <-ticker.C of analyzer a: the runner is called.
AnalyzerTick(a) ==
  /\ analyzers[a].pc = "waiting"
  /\ ~GroupCtxDone
  /\ now >= analyzers[a].nextTick
  /\ analyzers' = [analyzers EXCEPT ![a] = TickTaken(@, now)]
  /\ UNCHANGED egErr
  /\ AnalyzerFrame
  /\ UNCHANGED runVars

\* The runner of analyzer a returns.
AnalyzerEvaluated(a) ==
  /\ analyzers[a].pc = "evaluating"
  /\ \E o \in Outcomes :
       analyzers' = [analyzers EXCEPT ![a] = Evaluated(@, o, GroupCtxDone)]
  /\ UNCHANGED egErr
  /\ AnalyzerFrame
  /\ UNCHANGED runVars

\* case <-ctx.Done() of analyzer a.
AnalyzerDone(a) ==
  /\ analyzers[a].pc = "waiting"
  /\ GroupCtxDone
  /\ analyzers' = [analyzers EXCEPT ![a] = ReturnNil(@)]
  /\ UNCHANGED egErr
  /\ AnalyzerFrame
  /\ UNCHANGED runVars

\* The task of eg.Go hands the error analyzer.run returned to the group, which
\* keeps the first and cancels the group context.
EgTaskFailed(a) ==
  /\ analyzers[a].pc = "failed"
  /\ egErr' = EgSetErr(egErr, analyzers[a].id)
  /\ analyzers' = [analyzers EXCEPT ![a].pc = "done"]
  /\ AnalyzerFrame
  /\ UNCHANGED runVars

\* ------------------------------------------------------------ one analyzer run
strategyCanaryWithBaseline == "CANARY_WITH_BASELINE"
strategyCanaryWithPrimary == "CANARY_WITH_PRIMARY"
strategyPrevious == "PREVIOUS"
Strategies == {strategyCanaryWithBaseline, strategyCanaryWithPrimary, strategyPrevious}

\* newDynamicMetricsAnalyzer, then run(ctx) entered at instant t:
\* ticker := time.NewTicker(d.cfg.Interval.Duration())
DynStarted(strategy, interval, t) ==
  [strategy |-> strategy, interval |-> interval, nextTick |-> t + interval,
   pc |-> "waiting", err |-> FALSE, ticks |-> 0, afterCancel |-> FALSE]

\* case <-ticker.C: the switch over the strategy, whose three cases are empty.
DynTicked(d, t) ==
  LET body == CASE d.strategy = strategyPrevious -> d
                [] d.strategy = strategyCanaryWithBaseline -> d
                [] d.strategy = strategyCanaryWithPrimary -> d
                [] OTHER -> d
  IN [body EXCEPT !.nextTick = NextTick(d.nextTick, d.interval, t), !.ticks = @ + 1]

\* A return on ctx.Done() that hands back the context's error.
DynReturnedErr(d) == [d EXCEPT !.pc = "done", !.err = TRUE, !.afterCancel = TRUE]

\* case <-ctx.Done(): return nil
DynReturned(d) == [d EXCEPT !.pc = "done", !.err = FALSE, !.afterCancel = TRUE]

CancelReasons == {"parent cancel", "deadline", "sibling failure", "external stop"}
HCtxDone == hctx # "live"

\* The outcome classes of one tick, as the analyzer's contract names them.
FailingTick(a, o) == o \in {"breach", "error"} \/ (o = "nodata" /\ ~a.skipOnNoData)

NoHist == [ticks |-> 0, outcome |-> "none", before |-> 0, streak |-> 0, ret |-> "none"]

\* What the tick that just classified outcome o did, given the analyzer before.
Recorded(h, a, o) ==
  [h EXCEPT !.ticks = @ + 1, !.outcome = o, !.before = a.consecutiveFailures,
            !.streak = IF FailingTick(a, o) THEN @ + 1 ELSE 0]

ExecIdle ==
  /\ optionsNil = TRUE
  /\ duration = 30
  /\ numBlocks = 0
  /\ origStatus = NoStatus
  /\ stopSignal = StopSignalNone
  /\ stopWhileRunning = FALSE
  /\ now = 0
  /\ metadata = NoMetadata
  /\ latestResult = <<>>
  /\ pc = "idle"
  /\ startTime = 0
  /\ previousElapsedTime = 0
  /\ deadline = 0
  /\ timeout = 0
  /\ cancelled = FALSE
  /\ saveDeferred = FALSE
  /\ analyzers = <<>>
  /\ egErr = NoErr
  /\ egWaited = FALSE
  /\ status = NoStatus
  /\ exit = "none"
  /\ reportedErr = NoErr
  /\ setCalls = <<>>
  /\ putCalls = <<>>

RunFrame ==
  UNCHANGED <<optionsNil, duration, numBlocks, origStatus, stopSignal,
                 stopWhileRunning, metadata,
              latestResult, pc, startTime, previousElapsedTime, deadline, timeout,
              cancelled,
              saveDeferred, analyzers, egErr, egWaited, status, exit, reportedErr,
              setCalls, putCalls, cs>>

RunInit ==
  /\ \E fl \in 0..MaxFailureLimit, skip \in BOOLEAN : sa = NewAnalyzer(0, 30, fl, skip, 0)
  /\ \E st \in Strategies : da = DynStarted(st, 30, 0)
  /\ hctx = "live"
  /\ hist = NoHist
  /\ cs = NoCall

\* No analyzer is run on its own.
RunAtRest ==
  /\ sa = NewAnalyzer(0, 30, 0, FALSE, 0)
  /\ da = DynStarted(strategyPrevious, 30, 0)
  /\ hctx = "live"
  /\ hist = NoHist

RunIdle == RunAtRest /\ cs = NoCall

\* The static analyzer's ticker fires and the select takes the tick.
RunTick ==
  /\ sa.pc = "waiting"
  /\ ~HCtxDone
  /\ now >= sa.nextTick
  /\ sa' = TickTaken(sa, now)
  /\ UNCHANGED <<da, hctx, hist, now>>
  /\ RunFrame

\* Its runner returns.
RunEvaluated ==
  /\ sa.pc = "evaluating"
  /\ \E o \in Outcomes :
       /\ sa' = Evaluated(sa, o, HCtxDone)
       /\ hist' = IF HCtxDone THEN [hist EXCEPT !.ret = "cancelled"]
                  ELSE [Recorded(hist, sa, o) EXCEPT
                          !.ret = IF sa'.pc = "failed" THEN "live" ELSE @]
  /\ UNCHANGED <<da, hctx, now>>
  /\ RunFrame

\* Its select takes ctx.Done().
RunDone ==
  /\ sa.pc = "waiting"
  /\ HCtxDone
  /\ sa' = ReturnNil(sa)
  /\ hist' = [hist EXCEPT !.ret = "cancelled"]
  /\ UNCHANGED <<da, hctx, now>>
  /\ RunFrame

\* The dynamic analyzer's select takes a tick: a tick that is due may be taken
\* even when the context is done, select choosing among the ready cases.
DynTick ==
  /\ da.pc = "waiting"
  /\ now >= da.nextTick
  /\ da' = DynTicked(da, now)
  /\ UNCHANGED <<sa, hctx, hist, now>>
  /\ RunFrame

\* The dynamic analyzer's select takes ctx.Done().
DynDone ==
  /\ da.pc = "waiting"
  /\ HCtxDone
  /\ da' = DynReturned(da)
  /\ UNCHANGED <<sa, hctx, hist, now>>
  /\ RunFrame

\* The context handed to the two runs is cancelled.
RunCancel ==
  /\ ~HCtxDone
  /\ hctx' \in CancelReasons
  /\ UNCHANGED <<sa, da, hist, now>>
  /\ RunFrame

\* The clock of the single run: long enough for a full streak of failing ticks
\* after a tick that reset it.
RunAdvanceTime ==
  /\ now < 30 * (MaxFailureLimit + 2)
  /\ now' = now + 30
  /\ UNCHANGED <<sa, da, hctx, hist>>
  /\ RunFrame

RunNext ==
  \/ RunTick
  \/ RunEvaluated
  \/ RunDone
  \/ DynTick
  \/ DynDone
  \/ RunCancel
  \/ RunAdvanceTime

AnalyzerInit == ExecIdle /\ RunInit

\* A goroutine that can take a step takes it; a select whose ctx.Done() case
\* stays ready takes it in the end.
AnalyzerSpec ==
  /\ AnalyzerInit
  /\ [][RunNext]_vars
  /\ WF_vars(RunEvaluated)
  /\ WF_vars(RunDone)
  /\ WF_vars(DynDone)

Init == ExecInit /\ RunIdle

Next ==
  \/ ExecStart
  \/ ExecGetDS
  \/ ExecLoadTemplate
  \/ ExecTimeout
  \/ ExecSpawn
  \/ ExecWait
  \/ ExecPutResult
  \/ StopSignalArrives
  \/ AdvanceTime
  \/ \E a \in 1..Len(analyzers) : AnalyzerTick(a)
  \/ \E a \in 1..Len(analyzers) : AnalyzerEvaluated(a)
  \/ \E a \in 1..Len(analyzers) : AnalyzerDone(a)
  \/ \E a \in 1..Len(analyzers) : EgTaskFailed(a)

Spec == Init /\ [][Next]_vars

\* ------------------------------------------------------------ a resumed run
\* "20": a number without a unit, which time.ParseDuration rejects.
Malformed == << <<20, "">> >>

\* Anything the metadata store may hand to a run of the stage: no metadata, a
\* map without the key, a value that is no duration, a negative duration, zero,
\* and the elapsed times earlier runs may have saved.
AnyStoredMetadata ==
  {NoMetadata, [ok |-> TRUE, m |-> EmptyMap], MetadataOf(Malformed),
   MetadataOf(DurationString(-30)), MetadataOf(DurationString(0))}
  \cup {MetadataOf(DurationString(30 * k)) : k \in 1..(MaxDuration + 1)}

\* Execute entered for a stage of one check block, whatever the store holds.
ResumeInit ==
  /\ optionsNil = FALSE
  /\ duration \in {30 * k : k \in 1..MaxDuration}
  /\ numBlocks = 1
  /\ origStatus = NoStatus
  /\ stopSignal = StopSignalNone
  /\ stopWhileRunning = FALSE
  /\ now = 30
  /\ metadata \in AnyStoredMetadata
  /\ latestResult = <<>>
  /\ pc = "start"
  /\ startTime = 0
  /\ previousElapsedTime = 0
  /\ deadline = 0
  /\ timeout = 0
  /\ cancelled = FALSE
  /\ saveDeferred = FALSE
  /\ analyzers = <<>>
  /\ egErr = NoErr
  /\ egWaited = FALSE
  /\ status = NoStatus
  /\ exit = "none"
  /\ reportedErr = NoErr
  /\ setCalls = <<>>
  /\ putCalls = <<>>
  /\ RunIdle

ResumeSpec == ResumeInit /\ [][Next]_vars

\* ------------------------------------------------------------ analysis templates
\* A string is a sequence of tokens: <<"lit", c>> is the character c ("q" is
\* the double quote), <<"esc", "q">> is the two characters \" of a JSON text,
\* and the others are template actions: <<"arg", k>> is {{ .Args.k }},
\* <<"app", "Name">> is {{ .App.Name }}, <<"k8s", "Namespace">> is
\* {{ .K8s.Namespace }} and <<"field", "Nope">> is {{ .Nope }}, a field the
\* templateArgs struct does not have.
Q == <<"lit", "q">>
EscQ == <<"esc", "q">>
IsPlaceholder(tok) == tok[1] \notin {"lit", "esc"}
HasPlaceholder(t) == \E i \in 1..Len(t) : IsPlaceholder(t[i])

Kinds == {"Metrics", "Logs", "HTTPs"}
Names == {"n1", "n2"}
ArgKeys == {"x", "y"}

NoBound == <<>>
\* An analysis config of any kind: its query, its interval in seconds, its
\* expected range (metrics only) and the name of its provider.
Check(query, interval, min, max) ==
  [query |-> query, interval |-> interval,
   expected |-> [min |-> min, max |-> max], provider |-> "prom"]
NoCfg == [none |-> TRUE]

\* An AnalysisTemplateSpec: for each kind, a map from a name to a config.
EmptyDoc == [k \in Kinds |-> EmptyMap]
DocWith(kind, name, cfg) == [k \in Kinds |-> IF k = kind THEN (name :> cfg) ELSE EmptyMap]

\* encoding/json of a string: the double quote inside is escaped.
Escape(t) == [i \in 1..Len(t) |-> IF t[i] = Q THEN EscQ ELSE t[i]]
Unescape(t) == [i \in 1..Len(t) |-> IF t[i] = EscQ THEN Q ELSE t[i]]
MarshalStringRaw(t) == <<Q>> \o t \o <<Q>>
MarshalString(t) == <<Q>> \o Escape(t) \o <<Q>>

\* json.Unmarshal of a string: it opens and closes with a double quote, and a
\* bare double quote in between makes the text malformed.
UnmarshalString(text) ==
  IF \/ Len(text) < 2
     \/ text[1] # Q
     \/ text[Len(text)] # Q
     \/ \E i \in 2..(Len(text) - 1) : text[i] = Q
  THEN [ok |-> FALSE, s |-> <<>>]
  ELSE [ok |-> TRUE, s |-> Unescape(SubSeq(text, 2, Len(text) - 1))]

\* The data the template is executed with.
DefaultNamespace == << <<"lit", "d">> >>
templateArgs(customArgs, env) ==
  [Args |-> customArgs,
   AppName |-> env.appName,
   Namespace |-> IF env.isK8s
                 THEN IF env.namespace # <<>> THEN env.namespace ELSE DefaultNamespace
                 ELSE <<>>]

\* What one token of the template prints.  The template is parsed with no
\* Option call, so text/template keeps its default missingkey behaviour: a key
\* the Args map lacks is no error, and the action prints "<no value>".
NoValue == << <<"lit", "<no value>">> >>
Subst(tok, data) ==
  CASE tok[1] = "arg" -> IF tok[2] \in DOMAIN data.Args
                         THEN [ok |-> TRUE, out |-> data.Args[tok[2]]]
                         ELSE [ok |-> TRUE, out |-> NoValue]
    [] tok[1] = "app" -> [ok |-> TRUE, out |-> data.AppName]
    [] tok[1] = "k8s" -> [ok |-> TRUE, out |-> data.Namespace]
    [] tok[1] = "field" -> [ok |-> FALSE, out |-> <<>>]
    [] OTHER -> [ok |-> TRUE, out |-> <<tok>>]

\* t.Execute: the text is copied and every action replaced by what it prints;
\* the first action that fails fails the execution.
RECURSIVE TemplateExecute(_, _)
TemplateExecute(text, data) ==
  IF text = <<>> THEN [ok |-> TRUE, out |-> <<>>]
  ELSE LET h == Subst(Head(text), data)
           r == TemplateExecute(Tail(text), data)
       IN IF h.ok /\ r.ok THEN [ok |-> TRUE, out |-> h.out \o r.out]
          ELSE [ok |-> FALSE, out |-> <<>>]

\* One string of the document through json.Marshal, Execute and json.Unmarshal.
RenderString(t, data) ==
  LET e == TemplateExecute(MarshalString(t), data)
  IN IF e.ok THEN UnmarshalString(e.out) ELSE [ok |-> FALSE, s |-> <<>>]

\* Executor.render: the whole document is marshalled, executed as one template
\* and unmarshalled; any string that fails fails the rendering.
render(doc, customArgs, env) ==
  LET data == templateArgs(customArgs, env)
      r(k, n) == RenderString(doc[k][n].query, data)
  IN IF \E k \in Kinds : \E n \in DOMAIN doc[k] : ~r(k, n).ok
     THEN [ok |-> FALSE, doc |-> NoCfg]
     ELSE [ok |-> TRUE,
           doc |-> [k \in Kinds |->
                      [n \in DOMAIN doc[k] |-> [doc[k][n] EXCEPT !.query = r(k, n).s]]]]

\* ------------------------------------------------------------ resolving a check
\* AnalysisMetrics.Validate: the interval is positive and the expected range
\* has at least one bound.
ValidateIntervalOnly(cfg) == cfg.interval > 0
Validate(cfg) ==
  /\ cfg.interval > 0
  /\ (cfg.expected.min # NoBound \/ cfg.expected.max # NoBound)

Resolved(cfg) == [ok |-> TRUE, cfg |-> cfg, err |-> NoErr]
Failed(why) == [ok |-> FALSE, cfg |-> NoCfg, err |-> <<why>>]

\* A templatable check: the template name ("" for none), the arguments of the
\* template reference, and the inline config.
Templatable(name, args, inline) == [name |-> name, args |-> args, inline |-> inline]

getMetricsConfig(templatableCfg, templateCfg, env) ==
  LET name == templatableCfg.name
      r == render(templateCfg, templatableCfg.args, env)
  IN IF name = ""
     THEN IF Validate(templatableCfg.inline) THEN Resolved(templatableCfg.inline)
          ELSE Failed("invalid metrics configuration")
     ELSE IF ~r.ok THEN Failed("render")
     ELSE IF name \notin DOMAIN r.doc["Metrics"] THEN Failed("analysis template not found")
     ELSE IF ~Validate(r.doc["Metrics"][name]) THEN Failed("invalid metrics configuration")
     ELSE Resolved(r.doc["Metrics"][name])

getLogConfigFromMetrics(templatableCfg, templateCfg, env) ==
  LET name == templatableCfg.name
      r == render(templateCfg, templatableCfg.args, env)
  IN IF name = "" THEN Resolved(templatableCfg.inline)
     ELSE IF ~r.ok THEN Failed("render")
     ELSE IF name \notin DOMAIN r.doc["Metrics"] THEN Failed("analysis template not found")
     ELSE Resolved(r.doc["Metrics"][name])
getLogConfig(templatableCfg, templateCfg, env) ==
  LET name == templatableCfg.name
      r == render(templateCfg, templatableCfg.args, env)
  IN IF name = "" THEN Resolved(templatableCfg.inline)
     ELSE IF ~r.ok THEN Failed("render")
     ELSE IF name \notin DOMAIN r.doc["Logs"] THEN Failed("analysis template not found")
     ELSE Resolved(r.doc["Logs"][name])

getHTTPConfig(templatableCfg, templateCfg, env) ==
  LET name == templatableCfg.name
      r == render(templateCfg, templatableCfg.args, env)
  IN IF name = "" THEN Resolved(templatableCfg.inline)
     ELSE IF ~r.ok THEN Failed("render")
     ELSE IF name \notin DOMAIN r.doc["HTTPs"] THEN Failed("analysis template not found")
     ELSE Resolved(r.doc["HTTPs"][name])

\* newMetricsProvider and newLogProvider: the piped config knows the provider
\* name and the factory builds the client, or the construction fails.
newProvider(providerName, piped) ==
  IF providerName \notin piped.providers THEN Failed("unknown provider name")
  ELSE IF ~piped.factoryOk THEN Failed("factory")
  ELSE [ok |-> TRUE, cfg |-> NoCfg, err |-> NoErr]

\* newAnalyzerForMetrics, newAnalyzerForLog, newAnalyzerForHTTP: ok says an
\* analyzer was created, cfg is the config it runs with.
newAnalyzerForMetrics(templatable, templateCfg, env, piped) ==
  LET c == getMetricsConfig(templatable, templateCfg, env)
  IN IF ~c.ok THEN c
     ELSE IF ~newProvider(c.cfg.provider, piped).ok THEN newProvider(c.cfg.provider, piped)
     ELSE c

newAnalyzerForLog(templatable, templateCfg, env, piped) ==
  LET c == getLogConfig(templatable, templateCfg, env)
  IN IF ~c.ok THEN c
     ELSE IF ~newProvider(c.cfg.provider, piped).ok THEN newProvider(c.cfg.provider, piped)
     ELSE c

newAnalyzerForHTTP(templatable, templateCfg, env, piped) ==
  getHTTPConfig(templatable, templateCfg, env)

\* newDynamicMetricsAnalyzer: the template reference is looked up among the
\* metrics templates as they are, without rendering.
newDynamicMetricsAnalyzer(templateRef, templates) ==
  IF templateRef \notin DOMAIN templates["Metrics"]
  THEN Failed("analysis template not found")
  ELSE Resolved(templates["Metrics"][templateRef])

\* The configs the resolver is given: a valid one, one with no interval, one
\* with no expected range, and a valid one whose query is an action.
Plain == << <<"lit", "a">> >>
ValidCheck == Check(Plain, 30, NoBound, <<1>>)
ZeroInterval == Check(Plain, 0, NoBound, <<1>>)
NoExpected == Check(Plain, 30, NoBound, NoBound)
Templated == Check(<< <<"arg", "x">> >>, 30, NoBound, <<1>>)
Checks == {ValidCheck, ZeroInterval, NoExpected, Templated}

\* The template documents: under each kind, no entry or one entry.
TemplateMaps(cfgs) == {EmptyMap} \cup {n :> c : n \in Names, c \in cfgs}
TemplateDocs ==
  {[k \in Kinds |-> CASE k = "Metrics" -> m [] k = "Logs" -> l [] OTHER -> h] :
     m \in TemplateMaps(Checks),
     l \in TemplateMaps(Checks \ {NoExpected}),
     h \in TemplateMaps(Checks \ {NoExpected})}

PlainEnv == [appName |-> Plain, isK8s |-> FALSE, namespace |-> <<>>]
Pipeds == {[providers |-> ps, factoryOk |-> f] :
             ps \in {{}, {"prom"}}, f \in BOOLEAN} \ {[providers |-> {}, factoryOk |-> FALSE]}

NoOut == [ok |-> FALSE, cfg |-> NoCfg, err |-> <<"not called">>]

\* One analyzer is about to be constructed from one check block.
ResolverCall ==
  \E kind \in Kinds \cup {"Dynamic"}, name \in {""} \cup Names, inline \in Checks,
     doc \in TemplateDocs, piped \in Pipeds,
     args \in {EmptyMap, "x" :> Plain} :
    cs = [op |-> "construct", kind |-> kind,
          templatable |-> Templatable(name, args, inline),
          doc |-> doc, env |-> PlainEnv, piped |-> piped,
          done |-> FALSE, out |-> NoOut]

ResolverInit == ExecIdle /\ RunAtRest /\ ResolverCall

Constructing(kind) == cs.op = "construct" /\ ~cs.done /\ cs.kind = kind
CallFrame == UNCHANGED <<execVars, sa, da, hctx, hist>>

ConstructMetrics ==
  /\ Constructing("Metrics")
  /\ cs' = [cs EXCEPT !.done = TRUE,
                      !.out = newAnalyzerForMetrics(cs.templatable, cs.doc, cs.env, cs.piped)]
  /\ CallFrame

ConstructLog ==
  /\ Constructing("Logs")
  /\ cs' = [cs EXCEPT !.done = TRUE,
                      !.out = newAnalyzerForLog(cs.templatable, cs.doc, cs.env, cs.piped)]
  /\ CallFrame

ConstructHTTP ==
  /\ Constructing("HTTPs")
  /\ cs' = [cs EXCEPT !.done = TRUE,
                      !.out = newAnalyzerForHTTP(cs.templatable, cs.doc, cs.env, cs.piped)]
  /\ CallFrame

\* A dynamic analyzer is constructed only from a template reference.
ConstructDynamic ==
  /\ Constructing("Dynamic")
  /\ cs.templatable.name # ""
  /\ cs' = [cs EXCEPT !.done = TRUE,
                      !.out = newDynamicMetricsAnalyzer(cs.templatable.name, cs.doc)]
  /\ CallFrame

ResolverNext ==
  \/ ConstructMetrics
  \/ ConstructLog
  \/ ConstructHTTP
  \/ ConstructDynamic

ResolverSpec == ResolverInit /\ [][ResolverNext]_vars

\* ------------------------------------------------------------ resolver claims
Constructed == cs.op = "construct" /\ cs.done
InlineCheck == Constructed /\ cs.kind \in Kinds /\ cs.templatable.name = ""
\* A check no analyzer can run with: for metrics what Validate rejects, for
\* logs and https an interval that is not positive.
InlineValid ==
  IF cs.kind = "Metrics" THEN Validate(cs.templatable.inline)
  ELSE cs.templatable.inline.interval > 0

\* C16: for each of the three kinds, a check with an empty template name is
\* resolved to its inline config only when that config is valid; an invalid
\* inline config makes the construction of the analyzer fail.
C16_InlineValidated ==
  InlineCheck =>
    /\ cs.out.ok => (InlineValid /\ cs.out.cfg = cs.templatable.inline)
    /\ ~InlineValid => (~cs.out.ok /\ cs.out.cfg = NoCfg)

TemplateRef == Constructed /\ cs.templatable.name # ""
OwnKind == IF cs.kind = "Dynamic" THEN "Metrics" ELSE cs.kind
\* C17: a check that names a template is resolved to the entry of that name
\* under its own kind, rendered; when that kind has no entry of the name (the
\* document is empty, or the name is only under another kind) the construction
\* fails and no analyzer is created.  newDynamicMetricsAnalyzer does the same
\* with the metrics templates.
C17_TemplateSelectedByKind ==
  TemplateRef =>
    /\ cs.templatable.name \notin DOMAIN cs.doc[OwnKind]
         => (~cs.out.ok /\ cs.out.cfg = NoCfg /\ cs.out.err # NoErr)
    /\ cs.out.ok =>
         /\ cs.templatable.name \in DOMAIN cs.doc[OwnKind]
         /\ cs.out.cfg.interval = cs.doc[OwnKind][cs.templatable.name].interval
         /\ cs.out.cfg.expected = cs.doc[OwnKind][cs.templatable.name].expected
         /\ ~HasPlaceholder(cs.doc[OwnKind][cs.templatable.name].query)
              => cs.out.cfg = cs.doc[OwnKind][cs.templatable.name]
         /\ (cs.kind # "Dynamic" /\ cs.doc[OwnKind][cs.templatable.name] = Templated)
              => cs.out.cfg.query = IF "x" \in DOMAIN cs.templatable.args
                                    THEN cs.templatable.args["x"] ELSE NoValue

\* C17 witness: a log check names a template that exists only among the
\* metrics templates, and its construction failed.
C17_Witness ==
  /\ TemplateRef
  /\ cs.kind = "Logs"
  /\ cs.templatable.name = "n1"
  /\ "n1" \in DOMAIN cs.doc["Metrics"]
  /\ cs.doc["Logs"] = EmptyMap
  /\ ~cs.out.ok
  /\ cs.out.err = <<"analysis template not found">>

\* ------------------------------------------------------------ rendering a document
\* The characters and actions a query is made of.
Alphabet ==
  {<<"lit", "a">>, Q, <<"arg", "x">>, <<"arg", "y">>, <<"app", "Name">>,
   <<"k8s", "Namespace">>, <<"field", "Nope">>}
Texts == UNION {[1..k -> Alphabet] : k \in 0..MaxText}

\* The args maps: x is absent, a letter or a double quote; y is absent or a letter.
ArgsMaps ==
  {[k \in ks |-> IF k = "x" THEN vx ELSE Plain] :
     ks \in SUBSET ArgKeys, vx \in {Plain, <<Q>>}}

Envs ==
  {PlainEnv,
   [appName |-> Plain, isK8s |-> TRUE, namespace |-> <<>>],
   [appName |-> Plain, isK8s |-> TRUE, namespace |-> Plain]}

NotRendered == [ok |-> FALSE, doc |-> [none |-> FALSE]]

\* render is about to be called on a document of one entry.
RenderCall ==
  \E kind \in Kinds, t \in Texts, args \in ArgsMaps, env \in Envs :
    cs = [op |-> "render",
          doc |-> DocWith(kind, "n1", Check(t, 30, NoBound, <<1>>)),
          args |-> args, env |-> env,
          step |-> 0, out1 |-> NotRendered, out2 |-> NotRendered]

RenderInit == ExecIdle /\ RunAtRest /\ RenderCall

\* render(doc, args)
RenderOnce ==
  /\ cs.op = "render"
  /\ cs.step = 0
  /\ cs' = [cs EXCEPT !.step = 1, !.out1 = render(cs.doc, cs.args, cs.env)]
  /\ CallFrame

\* render(render(doc, args), args)
RenderAgain ==
  /\ cs.op = "render"
  /\ cs.step = 1
  /\ cs.out1.ok
  /\ cs' = [cs EXCEPT !.step = 2, !.out2 = render(cs.out1.doc, cs.args, cs.env)]
  /\ CallFrame

RenderNext ==
  \/ RenderOnce
  \/ RenderAgain

RenderSpec == RenderInit /\ [][RenderNext]_vars

\* ------------------------------------------------------------ render claims
Rendered == cs.op = "render" /\ cs.step >= 1
DocTexts == UNION {{cs.doc[k][n].query : n \in DOMAIN cs.doc[k]} : k \in Kinds}
\* The document has an action {{ .Args.k }} for a key k the args map lacks.
RefersToMissingArg ==
  \E t \in DocTexts : \E i \in 1..Len(t) :
    t[i][1] = "arg" /\ t[i][2] \notin DOMAIN cs.args
NoPlaceholders == \A t \in DocTexts : ~HasPlaceholder(t)

\* C18: render of a document with a placeholder for a user argument that the
\* args map lacks returns an error and no document.
C18_MissingArgIsError ==
  (Rendered /\ RefersToMissingArg) => (~cs.out1.ok /\ cs.out1.doc = NoCfg)

\* C19: render of a document without placeholders returns, whatever the args,
\* a document equal to its input, and rendering that result again returns the
\* same document.
C19_NoPlaceholderIdentity ==
  (cs.op = "render" /\ NoPlaceholders) =>
    /\ cs.step >= 1 => (cs.out1.ok /\ cs.out1.doc = cs.doc)
    /\ cs.step = 2 => (cs.out2.ok /\ cs.out2.doc = cs.out1.doc /\ cs.out2.doc = cs.doc)

\* C19 witness: a query of a letter and a double quote, with no placeholder,
\* rendered twice with a non-empty args map, came back as it was.
C19_Witness ==
  /\ cs.op = "render"
  /\ cs.step = 2
  /\ cs.doc["Metrics"] = ("n1" :> Check(<< <<"lit", "a">>, Q >>, 30, NoBound, <<1>>))
  /\ cs.args = ("x" :> <<Q>>)
  /\ cs.out2.ok
  /\ cs.out2.doc = cs.doc

\* ------------------------------------------------------------ one threshold evaluation
\* Values are in tenths: 9 is 0.9, 10 is 1, 11 is 1.1.
PointValues == 8..11
ExpectedBounds == {NoBound, <<9>>, <<10>>}
PointLists == UNION {[1..k -> PointValues] : k \in 0..MaxPoints}
\* What the provider's query gives: an error (the sentinel for no data being
\* one), or the points.
QueryErrs == {NoErr, <<"query failed">>, <<"no data">>}

\* AnalysisExpected.InRange: a bound that is not set does not constrain.
InRangeMaxOnly(expected, v) ==
  expected.max = NoBound \/ v <= expected.max[1]
InRange(expected, v) ==
  /\ expected.min = NoBound \/ v >= expected.min[1]
  /\ expected.max = NoBound \/ v <= expected.max[1]

\* The points are walked in order up to the first one out of the range.
RECURSIVE AllInRange(_, _)
AllInRange(expected, points) ==
  IF points = <<>> THEN TRUE
  ELSE IF ~InRange(expected, Head(points)) THEN FALSE
  ELSE AllInRange(expected, Tail(points))

\* The threshold evaluation of one tick: an expected range without a bound and
\* a failed query are errors; otherwise the verdict is that of the points.
analyzeWithThreshold(expected, points, queryErr) ==
  IF expected.min = NoBound /\ expected.max = NoBound
  THEN [ok |-> FALSE, err |-> <<"expected is required">>]
  ELSE IF queryErr # NoErr THEN [ok |-> FALSE, err |-> queryErr]
  ELSE [ok |-> AllInRange(expected, points), err |-> NoErr]

\* One tick of a static metrics analyzer is about to be evaluated.
ThresholdCall ==
  \E min \in ExpectedBounds, max \in ExpectedBounds, points \in PointLists,
     queryErr \in QueryErrs :
    cs = [op |-> "evaluate",
          expected |-> [min |-> min, max |-> max],
          points |-> IF queryErr = NoErr THEN points ELSE <<>>,
          queryErr |-> queryErr,
          done |-> FALSE,
          out |-> [ok |-> FALSE, err |-> <<"not called">>]]

ThresholdInit == ExecIdle /\ RunAtRest /\ ThresholdCall

EvaluateTick ==
  /\ cs.op = "evaluate"
  /\ ~cs.done
  /\ cs' = [cs EXCEPT !.done = TRUE,
                      !.out = analyzeWithThreshold(cs.expected, cs.points, cs.queryErr)]
  /\ CallFrame

ThresholdSpec == ThresholdInit /\ [][EvaluateTick]_vars

\* ------------------------------------------------------------ threshold claims
TickEvaluated == cs.op = "evaluate" /\ cs.done
HasBound == cs.expected.min # NoBound \/ cs.expected.max # NoBound
Within(v) ==
  /\ cs.expected.min # NoBound => cs.expected.min[1] <= v
  /\ cs.expected.max # NoBound => v <= cs.expected.max[1]

\* C20: for a check with a max, a min or both, the threshold evaluation of a
\* tick returns true and no error exactly when the query gave no error and
\* every returned point is within the bounds; a point outside them gives false
\* and no error; a query error gives false and an error.
C20_ThresholdVerdict ==
  (TickEvaluated /\ HasBound) =>
    /\ cs.queryErr = NoErr =>
         /\ cs.out.err = NoErr
         /\ cs.out.ok <=> \A i \in 1..Len(cs.points) : Within(cs.points[i])
    /\ cs.queryErr # NoErr => (~cs.out.ok /\ cs.out.err # NoErr)

\* C20 witness: max 1 and the points 0.9, 1.1, 0.8: false, and no error.
C20_Witness ==
  /\ TickEvaluated
  /\ cs.expected = [min |-> NoBound, max |-> <<10>>]
  /\ cs.points = <<9, 11, 8>>
  /\ cs.queryErr = NoErr
  /\ ~cs.out.ok
  /\ cs.out.err = NoErr

\* ------------------------------------------------------------ a metrics check, built and evaluated
\* A static metrics check is given inline or through a template; its analyzer
\* is constructed, and a tick is evaluated on the check as it is (the test
\* builds the metricsAnalyzer from the config directly).
ExpectedCall ==
  \E check \in Checks, via \in {"inline", "template"}, piped \in Pipeds,
     points \in PointLists, queryErr \in QueryErrs :
    cs = [op |-> "static", check |-> check, via |-> via,
          templatable |-> IF via = "inline" THEN Templatable("", EmptyMap, check)
                          ELSE Templatable("n1", EmptyMap, ValidCheck),
          doc |-> IF via = "inline" THEN EmptyDoc ELSE DocWith("Metrics", "n1", check),
          env |-> PlainEnv, piped |-> piped,
          points |-> IF queryErr = NoErr THEN points ELSE <<>>,
          queryErr |-> queryErr,
          step |-> 0,
          out |-> NoOut,
          tick |-> [ok |-> FALSE, err |-> <<"not called">>]]

ExpectedInit == ExecIdle /\ RunAtRest /\ ExpectedCall

ConstructStatic ==
  /\ cs.op = "static"
  /\ cs.step = 0
  /\ cs' = [cs EXCEPT !.step = 1,
                      !.out = newAnalyzerForMetrics(cs.templatable, cs.doc, cs.env, cs.piped)]
  /\ CallFrame

EvaluateStatic ==
  /\ cs.op = "static"
  /\ cs.step = 1
  /\ cs' = [cs EXCEPT !.step = 2,
                      !.tick = analyzeWithThreshold(cs.check.expected, cs.points, cs.queryErr)]
  /\ CallFrame

ExpectedNext ==
  \/ ConstructStatic
  \/ EvaluateStatic

ExpectedSpec == ExpectedInit /\ [][ExpectedNext]_vars

\* C21: a static metrics check whose expected range has neither a min nor a
\* max is rejected, inline or templated: the construction of its analyzer
\* fails with a configuration error, and a threshold evaluation on it returns
\* false with an error.
C21_MissingExpectedRejected ==
  (cs.op = "static"
     /\ cs.check.expected.min = NoBound /\ cs.check.expected.max = NoBound) =>
    /\ cs.step >= 1 => /\ ~cs.out.ok
                       /\ cs.out.cfg = NoCfg
                       /\ cs.out.err = <<"invalid metrics configuration">>
    /\ cs.step = 2 => (~cs.tick.ok /\ cs.tick.err # NoErr)

\* C21 witness: a templated check without an expected range, with a known
\* provider and points the query returned: not constructed, and the tick is
\* false with an error.
C21_Witness ==
  /\ cs.op = "static"
  /\ cs.step = 2
  /\ cs.via = "template"
  /\ cs.check = NoExpected
  /\ cs.piped = [providers |-> {"prom"}, factoryOk |-> TRUE]
  /\ cs.points = <<9, 9, 8>>
  /\ cs.queryErr = NoErr
  /\ ~cs.out.ok
  /\ ~cs.tick.ok
  /\ cs.tick.err # NoErr

\* ------------------------------------------------------------ the rank-sum comparison
\* The Mann-Whitney U test on two samples, in whole numbers: ranks and U are
\* kept doubled, and the comparison of z squared with 1.96 squared (a two-sided
\* p below 0.05) is cross-multiplied, 1.96 squared being 2401/625.
SampleValues == 1..3
\* The statistic depends on a sample only through the values in it, so a
\* sample is listed in ascending order.
Samples ==
  {s \in UNION {[1..k -> SampleValues] : k \in 0..MaxSample} :
     \A i \in 1..(Len(s) - 1) : s[i] <= s[i + 1]}
Deviations == {"HIGH", "LOW", "EITHER"}

CountLess(v, s) == Cardinality({i \in 1..Len(s) : s[i] < v})
CountEqual(v, s) == Cardinality({i \in 1..Len(s) : s[i] = v})

\* Twice the rank of the value v in the pooled sample: values that tie share
\* the average of the ranks they occupy.
Rank2(v, pooled) == 2 * CountLess(v, pooled) + CountEqual(v, pooled) + 1

RECURSIVE RankSum2(_, _)
RankSum2(a, pooled) ==
  IF a = <<>> THEN 0 ELSE Rank2(Head(a), pooled) + RankSum2(Tail(a), pooled)

\* Twice U_a = R_a - n_a (n_a + 1) / 2.
U2Unadjusted(a, b) == RankSum2(a, a \o b)
U2(a, b) == RankSum2(a, a \o b) - Len(a) * (Len(a) + 1)

\* The tie adjustment: the sum of t^3 - t over the groups of tied values.
RECURSIVE TieTerm(_, _)
TieTerm(values, pooled) ==
  IF values = {} THEN 0
  ELSE LET v == CHOOSE x \in values : TRUE
           t == CountEqual(v, pooled)
       IN (t * t * t - t) + TieTerm(values \ {v}, pooled)

\* N^3 - N - T: zero exactly when sigma is zero, every value being the same.
Spread(a, b) ==
  LET N == Len(a) + Len(b)
  IN N * N * N - N - TieTerm(SampleValues, a \o b)

\* p < 0.05: z^2 > 1.96^2, with z = (U_a - n_a n_b / 2) / sigma and
\* sigma^2 = n_a n_b (N^3 - N - T) / (12 N (N - 1)).
Significant(a, b) ==
  LET N == Len(a) + Len(b)
      D == U2(a, b) - Len(a) * Len(b)
  IN 1875 * D * D * N * (N - 1) > 2401 * Len(a) * Len(b) * Spread(a, b)

RECURSIVE SumOf(_)
SumOf(s) == IF s = <<>> THEN 0 ELSE Head(s) + SumOf(Tail(s))
\* mean(a) > mean(b)
MeanGreater(a, b) == SumOf(a) * Len(b) > SumOf(b) * Len(a)

\* The direction the deviation forbids.
DisallowedSwapped(a, b, deviation) ==
  CASE deviation = "HIGH" -> MeanGreater(b, a)
    [] deviation = "LOW" -> MeanGreater(a, b)
    [] OTHER -> TRUE
Disallowed(a, b, deviation) ==
  CASE deviation = "HIGH" -> MeanGreater(a, b)
    [] deviation = "LOW" -> MeanGreater(b, a)
    [] OTHER -> TRUE

\* compare(experiment, control, deviation): "ok" for no deviation (a nil
\* error), "deviation" for a failed test, "insufficient" when a sample has
\* fewer than two values.
compare(experiment, control, deviation) ==
  IF Len(experiment) < 2 \/ Len(control) < 2 THEN "insufficient"
  ELSE IF Spread(experiment, control) = 0 THEN "ok"
  ELSE IF Significant(experiment, control) /\ Disallowed(experiment, control, deviation)
       THEN "deviation"
  ELSE "ok"

NotCompared == "not called"

\* Two samples are about to be compared, under each deviation in turn.
CompareCall ==
  \E experiment \in Samples, control \in Samples :
    cs = [op |-> "compare", experiment |-> experiment, control |-> control,
          out |-> [d \in Deviations |-> NotCompared]]

CompareInit == ExecIdle /\ RunAtRest /\ CompareCall

Compare(deviation) ==
  /\ cs.op = "compare"
  /\ cs.out[deviation] = NotCompared
  /\ cs' = [cs EXCEPT !.out[deviation] = compare(cs.experiment, cs.control, deviation)]
  /\ CallFrame

CompareHigh == Compare("HIGH")
CompareLow == Compare("LOW")
CompareEither == Compare("EITHER")

CompareNext ==
  \/ CompareHigh
  \/ CompareLow
  \/ CompareEither

CompareSpec == CompareInit /\ [][CompareNext]_vars

\* ------------------------------------------------------------ rank-sum claims
Compared(deviation) == cs.op = "compare" /\ cs.out[deviation] # NotCompared
Fails(deviation) == Compared(deviation) /\ cs.out[deviation] = "deviation"

\* C22: with deviation EITHER, two samples of the same values (two or more)
\* compare as no deviation, with no error.
C22_IdenticalSamplesPass ==
  (Compared("EITHER") /\ cs.experiment = cs.control /\ Len(cs.experiment) >= 2)
    => cs.out["EITHER"] = "ok"

\* C22 witness: the two samples are both 1, 2, 3, 3, and EITHER found no
\* deviation.
C22_Witness ==
  /\ Compared("EITHER")
  /\ cs.experiment = <<1, 2, 3, 3>>
  /\ cs.control = <<1, 2, 3, 3>>
  /\ cs.out["EITHER"] = "ok"

\* Every value of s is at most every value of t, and some value is below.
EntirelyBelow(s, t) ==
  /\ \A i \in 1..Len(s) : \A j \in 1..Len(t) : s[i] <= t[j]
  /\ \E i \in 1..Len(s) : \E j \in 1..Len(t) : s[i] < t[j]
ExperimentTotalHigher == SumOf(cs.experiment) * Len(cs.control) > SumOf(cs.control) * Len(cs.experiment)
ExperimentTotalLower == SumOf(cs.experiment) * Len(cs.control) < SumOf(cs.control) * Len(cs.experiment)
AllCompared == \A d \in Deviations : Compared(d)

\* C23: the deviation names the direction that is not allowed.  HIGH fails
\* only on a significant difference (one EITHER fails on too) with the
\* experiment the greater, and never when the experiment is the lower; LOW
\* fails only on a significant difference with the experiment the lower, and
\* never when it is the greater; EITHER fails on the significant differences of
\* both directions.
C23_DeviationIsDisallowedDirection ==
  AllCompared =>
    /\ Fails("HIGH") => (Fails("EITHER") /\ ExperimentTotalHigher)
    /\ Fails("LOW") => (Fails("EITHER") /\ ExperimentTotalLower)
    /\ ExperimentTotalLower => ~Fails("HIGH")
    /\ ExperimentTotalHigher => ~Fails("LOW")
    /\ (Fails("EITHER") /\ ExperimentTotalHigher) => Fails("HIGH")
    /\ (Fails("EITHER") /\ ExperimentTotalLower) => Fails("LOW")
    /\ (EntirelyBelow(cs.control, cs.experiment) /\ Len(cs.experiment) >= 3
          /\ Len(cs.control) >= 3 /\ Fails("EITHER"))
         => (Fails("HIGH") /\ ~Fails("LOW"))

\* C23 witness: the experiment 3, 3, 3 against the control 1, 1, 1: HIGH and
\* EITHER fail, LOW does not.
C23_Witness ==
  /\ AllCompared
  /\ cs.experiment = <<3, 3, 3>>
  /\ cs.control = <<1, 1, 1>>
  /\ Fails("HIGH")
  /\ Fails("EITHER")
  /\ cs.out["LOW"] = "ok"

\* ------------------------------------------------------------ the verdict of Execute
\* Execute returned from eg.Wait or later: every configured analyzer was
\* constructed and started.
ReachedWait == exit \in {"analysisFailed", "stopped", "success"}

Returned == pc = "returned"

AnalyzerErred(a) == analyzers[a].err
AllReturnedNil ==
  /\ Len(analyzers) = numBlocks
  /\ \A a \in 1..Len(analyzers) : analyzers[a].pc = "done" /\ ~AnalyzerErred(a)

\* C1: a run of Execute that constructed and started every analyzer and saw no
\* stop signal returns STAGE_SUCCESS exactly when every analyzer's run returned
\* without an error, and STAGE_FAILURE when any analyzer returned an error.
C1_VerdictWithoutStop ==
  (Returned /\ ReachedWait /\ stopSignal = StopSignalNone) =>
     /\ (status = STAGE_SUCCESS <=> AllReturnedNil)
     /\ ((\E a \in 1..Len(analyzers) : AnalyzerErred(a)) => status = STAGE_FAILURE)
     /\ status \in {STAGE_SUCCESS, STAGE_FAILURE}

C1_Witness ==
  /\ Returned /\ ReachedWait /\ stopSignal = StopSignalNone
  /\ status = STAGE_SUCCESS
  /\ Len(analyzers) = 2
  /\ \A a \in 1..2 : analyzers[a].evaluated
  /\ analyzers[1].consecutiveFailures = 1

C3_DeadlineExpiryIsSuccess ==
  (/\ Returned /\ ReachedWait
   /\ stopSignal = StopSignalNone
   /\ \A a \in 1..Len(analyzers) : ~AnalyzerErred(a)
   /\ DeadlineExpired) => status = STAGE_SUCCESS

C3_Witness ==
  /\ Returned /\ exit = "success" /\ status = STAGE_SUCCESS
  /\ stopSignal = StopSignalNone
  /\ DeadlineExpired /\ deadline > startTime
  /\ Len(analyzers) = 2
  /\ analyzers[2].evaluated /\ analyzers[2].consecutiveFailures = 1

\* The status the analyzers alone give the stage.
LocalStatus == IF egErr # NoErr THEN STAGE_FAILURE ELSE STAGE_SUCCESS

\* C4: when the stop signal arrived while analyzers were running, the status
\* Execute returns is DetermineStageStatus(signal, original status, local
\* status), in every interleaving.
C4_StopStatusDetermined ==
  (Returned /\ ReachedWait /\ stopWhileRunning) =>
     status = DetermineStageStatus(stopSignal, origStatus, LocalStatus)

\* ------------------------------------------------------------ elapsed time
SetupFailed == exit \in {"noOptions", "dsError", "templateError"}

\* C9 as stated: every run of Execute that returned called SetStageMetadata
\* with the elapsedTime key.
C9_AsStated ==
  Returned => (Len(setCalls) >= 1 /\ setCalls[1].key = elapsedTimeKey)

\* C9 amended: a run that returned called SetStageMetadata with the
\* elapsedTime key exactly once when it got past setup (options, deploy source,
\* template), whatever its outcome, and not at all when setup failed.
C9_SavedOncePastSetup ==
  /\ Returned =>
       IF SetupFailed THEN setCalls = <<>>
       ELSE Len(setCalls) = 1 /\ setCalls[1].key = elapsedTimeKey
  /\ ~Returned => setCalls = <<>>

C9_Witness ==
  /\ Returned /\ exit = "stopped" /\ status = STAGE_CANCELLED
  /\ Len(setCalls) = 1
  /\ Len(analyzers) >= 1

\* C10: the elapsedTime a run writes parses back to previousElapsedTime plus
\* the wall-clock time since the start of the run, previousElapsedTime being
\* what the metadata held when the run read it.
C10_ElapsedTimeWritten ==
  /\ \A i \in 1..Len(setCalls) :
       LET d == ParseDuration(setCalls[i].value) IN
       /\ d.ok
       /\ d.d = previousElapsedTime + (setCalls[i].at - startTime)
  /\ (saveDeferred /\ ~Returned) =>
       previousElapsedTime = retrievePreviousElapsedTime(metadata)

C10_Witness ==
  /\ Returned /\ Len(setCalls) = 1
  /\ previousElapsedTime = 30
  /\ startTime = 30
  /\ setCalls[1].at = 90
  /\ metadata = MetadataOf(setCalls[1].value)
  /\ setCalls[1].value = << <<1, "m">>, <<30, "s">> >>

\* ------------------------------------------------------------ persistence
\* C12: PutLatestAnalysisResult is called exactly in the runs that return
\* STAGE_SUCCESS, once, with the start time of the run; a run that returns
\* another status, and a run still under way, has stored no analysis result.
C12_ResultStoredIffSuccess ==
  /\ Len(putCalls) <= 1
  /\ \A i \in 1..Len(putCalls) : putCalls[i].startTime = startTime
  /\ Returned => (Len(putCalls) = 1 <=> status = STAGE_SUCCESS)
  /\ ~Returned => putCalls = <<>>
  /\ latestResult # <<>> =>
       (Returned /\ status = STAGE_SUCCESS /\ latestResult[1].startTime = startTime)

C12_Witness ==
  /\ Returned /\ status = STAGE_SUCCESS
  /\ Len(putCalls) = 1 /\ putCalls[1].startTime = 30
  /\ latestResult = <<[startTime |-> 30]>>
  /\ now = 90
  /\ Len(analyzers) = 2

\* C13: the status a run returns is the one its setup, its analyzers and the
\* stop signal give, whether its SetStageMetadata and PutLatestAnalysisResult
\* calls succeeded or failed; and every such call is made when the analyzers'
\* context is already done, so that no analyzer runs a tick after it.
C13_VerdictIgnoresPersistence ==
  /\ Returned =>
       status = IF ~egWaited \/ egErr # NoErr THEN STAGE_FAILURE
                ELSE IF exit = "stopped"
                  THEN DetermineStageStatus(stopSignal, origStatus, STAGE_SUCCESS)
                ELSE STAGE_SUCCESS
  /\ (setCalls # <<>> \/ putCalls # <<>>) => GroupCtxDone

C13_Witness ==
  /\ Returned /\ status = STAGE_SUCCESS
  /\ Len(putCalls) = 1 /\ ~putCalls[1].ok
  /\ Len(setCalls) = 1 /\ ~setCalls[1].ok
  /\ Len(analyzers) = 2 /\ \A a \in 1..2 : analyzers[a].evaluated

\* ------------------------------------------------------------ construction
\* C14: a run in which the construction of a block's analyzer failed returned
\* at that step with STAGE_FAILURE, constructed no analyzer for the blocks
\* after it, and called the analysis result store never.
C14_ConstructionFailureAborts ==
  /\ [](exit = "spawnError" =>
         /\ Returned /\ status = STAGE_FAILURE
         /\ Len(analyzers) < numBlocks
         /\ putCalls = <<>> /\ latestResult = <<>>)
  /\ [][exit' = "spawnError" => Len(analyzers') = Len(analyzers)]_vars
  /\ [][Returned => (status' = status /\ exit' = exit)]_vars

C14_Witness ==
  /\ exit = "spawnError" /\ status = STAGE_FAILURE
  /\ numBlocks = 2 /\ Len(analyzers) = 1
  /\ analyzers[1].evaluated /\ analyzers[1].pc = "done"

\* An analyzer task that was started and has not returned.
Running(a) == analyzers[a].pc \in {"waiting", "evaluating"}

\* C15: when Execute has returned, no analyzer it started is still running.
C15_NoneRunningAtReturn ==
  Returned => \A a \in 1..Len(analyzers) : ~Running(a)

\* ------------------------------------------------------------ the stage timeout
\* The elapsed time the store holds for the stage, read as the claim reads it:
\* the parsed value, or 0 when the metadata or the key is absent or the value
\* does not parse.
StoredElapsed(md) ==
  IF ~md.ok \/ elapsedTimeKey \notin DOMAIN md.m THEN 0
  ELSE IF ParseDuration(md.m[elapsedTimeKey]).ok
         THEN ParseDuration(md.m[elapsedTimeKey]).d
         ELSE 0

\* The run installed its timeout and has not yet overwritten the metadata.
TimeoutInstalled == saveDeferred /\ ~Returned

\* C11 as stated: the timeout installed on the stage context is the duration
\* minus the stored elapsed time, for every stored value.
C11_AsStated ==
  TimeoutInstalled => timeout = duration - StoredElapsed(metadata)

\* C11 amended: the timeout installed on the stage context is the duration
\* minus the stored elapsed time when that is positive, and the whole duration
\* when the stored value is absent, does not parse, is zero or is negative; the
\* deadline lies that far after the instant it was installed.
C11_TimeoutIsRemaining ==
  TimeoutInstalled =>
    /\ timeout = IF StoredElapsed(metadata) > 0
                   THEN duration - StoredElapsed(metadata)
                   ELSE duration
    /\ deadline - timeout \in startTime..now

C11_Witness ==
  /\ TimeoutInstalled
  /\ duration = 60
  /\ metadata = MetadataOf(<< <<30, "s">> >>)
  /\ timeout = 30
  /\ startTime = 30 /\ deadline = 90 /\ now = 90

\* ------------------------------------------------------------ one analyzer
\* C5: an analyzer with failureLimit F returns an error exactly at the tick
\* that completes the first streak of F+1 consecutive failing ticks, never
\* before; a successful tick resets the streak.
C5_ErrorAtFullStreak ==
  /\ sa.err <=> hist.streak = sa.failureLimit + 1
  /\ hist.streak <= sa.failureLimit + 1
  /\ sa.err => sa.pc = "failed"
  /\ hist.outcome = "ok" => (hist.streak = 0 /\ sa.consecutiveFailures = 0)

C5_Witness ==
  /\ sa.err /\ sa.failureLimit >= 1
  /\ hist.ticks > sa.failureLimit + 1
  /\ hist.streak = sa.failureLimit + 1

\* C6 as stated: with failureLimit 0 the first failing tick is tolerated.
C6_AsStated ==
  (sa.failureLimit = 0 /\ hist.streak = 1) => ~sa.err

\* C6 amended: with failureLimit 0 no breach is tolerated: the first failing
\* tick makes the analyzer return an error.
C6_ZeroFailsOnFirstBreach ==
  (sa.failureLimit = 0 /\ hist.streak >= 1) =>
     (hist.streak = 1 /\ sa.err /\ sa.pc = "failed")

C6_Witness ==
  /\ sa.failureLimit = 0 /\ sa.err
  /\ hist.streak = 1 /\ hist.ticks = 2

\* C7: with skipOnNoData a no-data tick leaves consecutiveFailures as it was
\* and returns no error; without it the tick counts as a failing tick.
C7_NoDataLeavesCounter ==
  hist.outcome = "nodata" =>
     IF sa.skipOnNoData
       THEN sa.consecutiveFailures = hist.before /\ ~sa.err
       ELSE sa.consecutiveFailures = hist.before + 1 /\ hist.streak >= 1

\* C8: an analyzer, static or dynamic, that returns once its context is done
\* returns nil, whatever its failure count; and once the context is done both
\* runs return.
C8_CancelledRunsReturnNil ==
  /\ [](hist.ret = "cancelled" => (sa.pc = "done" /\ ~sa.err))
  /\ [](da.pc = "done" => (da.afterCancel /\ HCtxDone /\ ~da.err))
  /\ [](~HCtxDone => da.pc = "waiting")
  /\ (HCtxDone ~> (sa.pc \in {"done", "failed"} /\ da.pc = "done"))

C8_Witness ==
  /\ hctx = "deadline"
  /\ sa.pc = "done" /\ hist.ret = "cancelled"
  /\ sa.failureLimit >= 1 /\ sa.consecutiveFailures = sa.failureLimit
  /\ da.pc = "done" /\ da.ticks >= 1


\* ------------------------------------------------------------ a stage with dynamic entries
\* Execute entered for a stage whose options also list dynamic metrics entries
\* (cs.dynamic of them) next to at most one static block.
DynamicStageInit ==
  /\ optionsNil = FALSE
  /\ duration \in {30 * k : k \in 1..MaxDuration}
  /\ numBlocks \in 0..1
  /\ origStatus = NoStatus
  /\ stopSignal = StopSignalNone
  /\ stopWhileRunning = FALSE
  /\ now = 30
  /\ metadata = NoMetadata
  /\ latestResult = <<>>
  /\ pc = "start"
  /\ startTime = 0
  /\ previousElapsedTime = 0
  /\ deadline = 0
  /\ timeout = 0
  /\ cancelled = FALSE
  /\ saveDeferred = FALSE
  /\ analyzers = <<>>
  /\ egErr = NoErr
  /\ egWaited = FALSE
  /\ status = NoStatus
  /\ exit = "none"
  /\ reportedErr = NoErr
  /\ setCalls = <<>>
  /\ putCalls = <<>>
  /\ RunAtRest
  /\ \E n \in 1..MaxBlocks : cs = [op |-> "stage", dynamic |-> n]

DynamicStageSpec == DynamicStageInit /\ [][Next]_vars

\* The task handed to eg.Go runs a dynamicMetricsAnalyzer.
IsDynamic(a) == "strategy" \in DOMAIN analyzers[a]
DynamicAnalyzers == {a \in 1..Len(analyzers) : IsDynamic(a)}

\* C24: a run of Execute that came to eg.Wait constructed and started one
\* dynamic analyzer for every dynamic metrics entry of the stage.
C24_DynamicAnalyzersRun ==
  (cs.op = "stage" /\ ReachedWait) => Cardinality(DynamicAnalyzers) = cs.dynamic


\* ------------------------------------------------------------ the context of the result store call
\* C25: every call of PutLatestAnalysisResult is made with a context that is
\* live at the time of the call, neither cancelled nor past its deadline.
C25_PutContextLive ==
  \A i \in 1..Len(putCalls) : ~putCalls[i].ctxDone


\* ------------------------------------------------------------ success and evaluations
\* C26 as stated: Execute returns STAGE_SUCCESS only if every configured
\* analyzer was started and evaluated at least once during the run.
C26_AsStated ==
  (Returned /\ status = STAGE_SUCCESS) =>
    /\ Len(analyzers) = numBlocks
    /\ \A a \in 1..Len(analyzers) : analyzers[a].evaluated

\* C26: Execute returns STAGE_SUCCESS only if every configured analyzer was
\* started and returned without an error; no evaluation is needed for it.  A
\* run whose timeout is no longer than the analyzers' interval (a stored
\* elapsed time at or beyond the duration included) evaluates nothing, and
\* returns STAGE_SUCCESS when it comes to eg.Wait and no stop signal arrives.
C26_SuccessNeedsNoEvaluation ==
  /\ (Returned /\ status = STAGE_SUCCESS) => AllReturnedNil
  /\ (saveDeferred /\ timeout <= 30) =>
       \A a \in 1..Len(analyzers) : ~analyzers[a].evaluated
  /\ (Returned /\ ReachedWait /\ timeout <= 30 /\ stopSignal = StopSignalNone)
       => status = STAGE_SUCCESS

\* C26 witness: duration 60s with "1m0s" stored: the timeout is zero, the one
\* analyzer returned without having evaluated, and the run is a success.
C26_Witness ==
  /\ Returned
  /\ status = STAGE_SUCCESS
  /\ duration = 60
  /\ metadata # NoMetadata
  /\ previousElapsedTime = 60
  /\ timeout = 0
  /\ Len(analyzers) = 1
  /\ analyzers[1].pc = "done"
  /\ ~analyzers[1].evaluated


\* ------------------------------------------------------------ runs of one stage
\* The first run of a stage of one check block, whatever the store holds;
\* cs counts the runs and keeps what the store held when each of them began.
RestartInit ==
  /\ optionsNil \in BOOLEAN
  /\ duration \in {30 * k : k \in 1..MaxDuration}
  /\ numBlocks = 1
  /\ origStatus = NoStatus
  /\ stopSignal = StopSignalNone
  /\ stopWhileRunning = FALSE
  /\ now = 30
  /\ metadata \in AnyStoredMetadata
  /\ latestResult = <<>>
  /\ pc = "start"
  /\ startTime = 0
  /\ previousElapsedTime = 0
  /\ deadline = 0
  /\ timeout = 0
  /\ cancelled = FALSE
  /\ saveDeferred = FALSE
  /\ analyzers = <<>>
  /\ egErr = NoErr
  /\ egWaited = FALSE
  /\ status = NoStatus
  /\ exit = "none"
  /\ reportedErr = NoErr
  /\ setCalls = <<>>
  /\ putCalls = <<>>
  /\ RunAtRest
  /\ cs = [op |-> "runs", run |-> 1, began |-> <<metadata>>]

\* The agent restarts and Execute is entered again for the same stage: a new
\* Executor, the same stage configuration, the stores as the last run left
\* them.  The clock is read from thirty again, only differences of instants
\* being used.
Restart ==
  /\ cs.op = "runs"
  /\ cs.run < MaxRuns
  /\ pc = "returned"
  /\ cs' = [cs EXCEPT !.run = @ + 1, !.began = Append(@, metadata)]
  /\ pc' = "start"
  /\ now' = 30
  /\ origStatus' = NoStatus
  /\ stopSignal' = StopSignalNone
  /\ stopWhileRunning' = FALSE
  /\ startTime' = 0
  /\ previousElapsedTime' = 0
  /\ deadline' = 0
  /\ timeout' = 0
  /\ cancelled' = FALSE
  /\ saveDeferred' = FALSE
  /\ analyzers' = <<>>
  /\ egErr' = NoErr
  /\ egWaited' = FALSE
  /\ status' = NoStatus
  /\ exit' = "none"
  /\ reportedErr' = NoErr
  /\ setCalls' = <<>>
  /\ putCalls' = <<>>
  /\ UNCHANGED <<optionsNil, duration, numBlocks, metadata, latestResult,
                 sa, da, hctx, hist>>

RestartNext ==
  \/ Next
  \/ Restart

RestartSpec == RestartInit /\ [][RestartNext]_vars

\* C27: over the runs of Execute for one stage the stored elapsedTime never
\* decreases: a write of the metadata stores a duration that is at least the
\* value the run read at its start (zero for none), and a run that returns
\* before its timeout is computed leaves the metadata as it was.
C27_ElapsedNeverDecreases ==
  /\ [][metadata' # metadata =>
          /\ saveDeferred
          /\ elapsedTimeKey \in DOMAIN metadata'.m
          /\ ParseDuration(metadata'.m[elapsedTimeKey]).ok
          /\ ParseDuration(metadata'.m[elapsedTimeKey]).d >= StoredElapsed(metadata)]_vars
  /\ [][(pc # "returned" /\ pc' = "returned" /\ ~saveDeferred)
          => metadata' = metadata]_vars

\* C27 witness: the store held "30s"; the first run wrote "1m30s", and the
\* second, which read that, wrote "2m0s".
C27_Witness ==
  /\ cs.op = "runs"
  /\ cs.run = 2
  /\ cs.began = <<MetadataOf(DurationString(30)), MetadataOf(DurationString(90))>>
  /\ Returned
  /\ previousElapsedTime = 90
  /\ Len(setCalls) = 1
  /\ setCalls[1].ok
  /\ metadata = MetadataOf(DurationString(120))


\* ------------------------------------------------------------ the Lambda deploy executor
StageLambdaSync == "LAMBDA_SYNC"
StageLambdaPromote == "LAMBDA_PROMOTE"
StageNames == {StageLambdaSync, StageLambdaPromote, "K8S_SYNC"}

\* deployExecutor.Execute is entered: what the deploy source provider, the
\* deployment configuration, the piped configuration, the function manifest
\* and the cloud will answer, the name of the stage and its status.
LambdaCall ==
  \E dsErr \in BOOLEAN, specNil \in BOOLEAN, found \in BOOLEAN,
     name \in StageNames, manifestOk \in BOOLEAN, syncOk \in BOOLEAN,
     ori \in {STAGE_NOT_STARTED_YET, STAGE_RUNNING} :
    cs = [op |-> "lambda", pc |-> "getDS",
          dsErr |-> dsErr, specNil |-> specNil, found |-> found,
          stageName |-> name, manifestOk |-> manifestOk, syncOk |-> syncOk,
          stageStatus |-> ori,
          signal |-> StopSignalNone,
          originalStatus |-> NoStatus, local |-> NoStatus,
          sigRead |-> <<>>, status |-> NoStatus]

LambdaInit == ExecIdle /\ RunAtRest /\ LambdaCall

LambdaAt(p) == cs.op = "lambda" /\ cs.pc = p
LambdaReturn(st) == [cs EXCEPT !.pc = "returned", !.status = st]

\* Lines 36-41.
LambdaGetDS ==
  /\ LambdaAt("getDS")
  /\ cs' = IF cs.dsErr THEN LambdaReturn(STAGE_FAILURE) ELSE [cs EXCEPT !.pc = "spec"]
  /\ CallFrame

\* Lines 43-48.
LambdaDeployCfg ==
  /\ LambdaAt("spec")
  /\ cs' = IF cs.specNil THEN LambdaReturn(STAGE_FAILURE) ELSE [cs EXCEPT !.pc = "provider"]
  /\ CallFrame

\* Lines 50-59: findCloudProvider, then the stage's status is read.
LambdaFindProvider ==
  /\ LambdaAt("provider")
  /\ cs' = IF ~cs.found THEN LambdaReturn(STAGE_FAILURE)
           ELSE [cs EXCEPT !.pc = "switch", !.originalStatus = cs.stageStatus]
  /\ CallFrame

\* ensureSync: the function manifest is loaded and the function synced.
ensureSync(manifestOk, syncOk) ==
  IF ~manifestOk THEN STAGE_FAILURE
  ELSE IF ~syncOk THEN STAGE_FAILURE
  ELSE STAGE_SUCCESS

\* ensurePromote: "This stage is not implemented yet".
ensurePromoteSucceeds == STAGE_SUCCESS
ensurePromote == STAGE_FAILURE

\* Lines 61-69: the switch over the stage name.
LambdaSwitch ==
  /\ LambdaAt("switch")
  /\ cs' = CASE cs.stageName = StageLambdaSync ->
                  [cs EXCEPT !.pc = "determine",
                             !.local = ensureSync(cs.manifestOk, cs.syncOk)]
             [] cs.stageName = StageLambdaPromote ->
                  [cs EXCEPT !.pc = "determine", !.local = ensurePromote]
             [] OTHER -> LambdaReturn(STAGE_FAILURE)
  /\ CallFrame

\* Line 71.
LambdaDetermine ==
  /\ LambdaAt("determine")
  /\ cs' = [cs EXCEPT !.pc = "returned",
                      !.sigRead = <<cs.signal>>,
                      !.status = DetermineStageStatus(cs.signal, cs.originalStatus, cs.local)]
  /\ CallFrame

\* The stop signal arrives while Execute runs.
LambdaStopSignal ==
  /\ cs.op = "lambda"
  /\ cs.pc # "returned"
  /\ cs.signal = StopSignalNone
  /\ \E sg \in {StopSignalTerminate, StopSignalCancel} : cs' = [cs EXCEPT !.signal = sg]
  /\ CallFrame

LambdaNext ==
  \/ LambdaGetDS
  \/ LambdaDeployCfg
  \/ LambdaFindProvider
  \/ LambdaSwitch
  \/ LambdaDetermine
  \/ LambdaStopSignal

LambdaSpec == LambdaInit /\ [][LambdaNext]_vars

LambdaReturned == cs.op = "lambda" /\ cs.pc = "returned"
LambdaResolved == ~cs.dsErr /\ ~cs.specNil /\ cs.found
LambdaStage == cs.stageName \in {StageLambdaSync, StageLambdaPromote}

\* C28: deployExecutor.Execute, with the deploy source, the spec and the cloud
\* provider resolved and a sync or promote stage, returns
\* DetermineStageStatus(stop signal, original stage status, local status), the
\* local status of promote being STAGE_FAILURE; in every other case it returns
\* STAGE_FAILURE and the stop signal is not read.
C28_LambdaStatus ==
  LambdaReturned =>
    IF LambdaResolved /\ LambdaStage
    THEN /\ cs.sigRead # <<>>
         /\ cs.originalStatus = cs.stageStatus
         /\ cs.local = IF cs.stageName = StageLambdaPromote THEN STAGE_FAILURE
                       ELSE IF cs.manifestOk /\ cs.syncOk THEN STAGE_SUCCESS
                       ELSE STAGE_FAILURE
         /\ cs.status = CASE cs.sigRead[1] = StopSignalNone -> cs.local
                          [] cs.sigRead[1] = StopSignalTerminate -> cs.stageStatus
                          [] OTHER -> STAGE_CANCELLED
    ELSE cs.status = STAGE_FAILURE /\ cs.sigRead = <<>>

\* C28 witness: a promote stage with everything resolved and a TERMINATE
\* signal returned the stage's original status.
C28_Witness ==
  /\ LambdaReturned
  /\ LambdaResolved
  /\ cs.stageName = StageLambdaPromote
  /\ cs.sigRead = <<StopSignalTerminate>>
  /\ cs.stageStatus = STAGE_RUNNING
  /\ cs.local = STAGE_FAILURE
  /\ cs.status = STAGE_RUNNING


\* ------------------------------------------------------------ the Kubernetes executor
variantLabel == "pipecd.dev/variant"
managedByLabel == "pipecd.dev/managed-by"
commitHashLabel == "pipecd.dev/commit-hash"
resourceKeyLabel == "pipecd.dev/resource-key"
originalAPIKeyLabel == "pipecd.dev/original-api-version"
managedByValue == "piped"

StageK8sPrimaryUpdate == "K8S_PRIMARY_UPDATE"
StageK8sStageRollout == "K8S_STAGE_ROLLOUT"
K8sStageNames == {StageK8sPrimaryUpdate, StageK8sStageRollout, "LAMBDA_SYNC"}

\* The i-th manifest loadManifests returns, as it is in the repository.
Manifest(i) ==
  [APIVersion |-> "apps/v1", name |-> <<"demo-app", i>>, annotations |-> EmptyMap]
ResourceKey(m) == <<m.APIVersion, "Deployment", m.name>>

\* Manifest.AddAnnotations: the given entries are set, the others kept.
AddAnnotationsNone(m, annotations) == m
AddAnnotations(m, annotations) ==
  [m EXCEPT !.annotations =
     [k \in DOMAIN m.annotations \cup DOMAIN annotations |->
        IF k \in DOMAIN annotations THEN annotations[k] ELSE m.annotations[k]]]

\* Lines 130-136.
PrimaryAnnotations(m, commitHash) ==
  [k \in {variantLabel, managedByLabel, originalAPIKeyLabel, resourceKeyLabel,
          commitHashLabel} |->
     CASE k = variantLabel -> "primary"
       [] k = managedByLabel -> managedByValue
       [] k = originalAPIKeyLabel -> m.APIVersion
       [] k = resourceKeyLabel -> ResourceKey(m)
       [] OTHER -> commitHash]

\* Execute is entered for a stage of a Kubernetes application.
K8sCall ==
  \E specNil \in BOOLEAN, name \in K8sStageNames, kubectlErr \in BOOLEAN,
     loadErr \in BOOLEAN, n \in 0..MaxManifests, applyErr \in BOOLEAN :
    cs = [op |-> "k8s", pc |-> "execute",
          specNil |-> specNil, stageName |-> name, kubectlErr |-> kubectlErr,
          loadErr |-> loadErr, repo |-> [i \in 1..n |-> Manifest(i)],
          applyErr |-> applyErr, commitHash |-> "c1",
          kubectl |-> FALSE, loaded |-> FALSE, manifests |-> <<>>, next |-> 1,
          applied |-> <<>>, status |-> NoStatus]

K8sInit == ExecIdle /\ RunAtRest /\ K8sCall

K8sAt(p) == cs.op = "k8s" /\ cs.pc = p
K8sReturn(st) == [cs EXCEPT !.pc = "returned", !.status = st]

\* Execute, lines 76-109.
K8sExecute ==
  /\ K8sAt("execute")
  /\ cs' = IF cs.specNil THEN K8sReturn(STAGE_FAILURE)
           ELSE CASE cs.stageName = StageK8sPrimaryUpdate -> [cs EXCEPT !.pc = "findKubectl"]
                  [] cs.stageName = StageK8sStageRollout -> K8sReturn(STAGE_SUCCESS)
                  [] OTHER -> K8sReturn(STAGE_FAILURE)
  /\ CallFrame

\* Lines 112-116.
K8sFindKubectl ==
  /\ K8sAt("findKubectl")
  /\ cs' = IF cs.kubectlErr THEN K8sReturn(STAGE_FAILURE)
           ELSE [cs EXCEPT !.pc = "loadManifests", !.kubectl = TRUE]
  /\ CallFrame

\* Lines 118-127.
K8sLoadManifests ==
  /\ K8sAt("loadManifests")
  /\ cs' = IF cs.loadErr THEN K8sReturn(STAGE_FAILURE)
           ELSE IF Len(cs.repo) = 0
                  THEN [K8sReturn(STAGE_FAILURE) EXCEPT !.loaded = TRUE]
           ELSE [cs EXCEPT !.pc = "annotate", !.loaded = TRUE, !.manifests = cs.repo]
  /\ CallFrame

\* Lines 129-137: one iteration of the loop.
K8sAnnotate ==
  /\ K8sAt("annotate")
  /\ cs.next <= Len(cs.manifests)
  /\ cs' = [cs EXCEPT !.manifests[cs.next] =
                         AddAnnotations(@, PrimaryAnnotations(@, cs.commitHash)),
                      !.next = @ + 1]
  /\ CallFrame

\* Lines 139-146.
K8sApply ==
  /\ K8sAt("annotate")
  /\ cs.next > Len(cs.manifests)
  /\ cs' = [K8sReturn(IF cs.applyErr THEN STAGE_FAILURE ELSE STAGE_SUCCESS)
              EXCEPT !.applied = Append(@, [manifests |-> cs.manifests,
                                            kubectl |-> cs.kubectl,
                                            ok |-> ~cs.applyErr])]
  /\ CallFrame

K8sNext ==
  \/ K8sExecute
  \/ K8sFindKubectl
  \/ K8sLoadManifests
  \/ K8sAnnotate
  \/ K8sApply

K8sSpec == K8sInit /\ [][K8sNext]_vars

K8sPrimary == cs.op = "k8s" /\ cs.stageName = StageK8sPrimaryUpdate
K8sReturned == cs.pc = "returned"
\* The manifest carries the five annotations of a primary resource.
Annotated(m) ==
  /\ {variantLabel, managedByLabel, originalAPIKeyLabel, resourceKeyLabel,
      commitHashLabel} \subseteq DOMAIN m.annotations
  /\ m.annotations[variantLabel] = "primary"
  /\ m.annotations[managedByLabel] = "piped"
  /\ m.annotations[originalAPIKeyLabel] = m.APIVersion
  /\ m.annotations[resourceKeyLabel] = <<m.APIVersion, "Deployment", m.name>>
  /\ m.annotations[commitHashLabel] = cs.commitHash

\* C29: in a primary update kubectl.Apply is called only with kubectl found, a
\* non-empty list of manifests loaded and every manifest carrying the variant,
\* managed-by, original-api-version, resource-key and commit-hash annotations;
\* the stage returns STAGE_SUCCESS exactly when Apply succeeded, and
\* STAGE_FAILURE with no call of Apply when kubectl is not found, the manifests
\* are not loaded or the list is empty.
C29_PrimaryUpdate ==
  K8sPrimary =>
    /\ Len(cs.applied) <= 1
    /\ \A i \in 1..Len(cs.applied) :
         /\ cs.applied[i].kubectl
         /\ ~cs.kubectlErr /\ ~cs.loadErr
         /\ Len(cs.applied[i].manifests) = Len(cs.repo)
         /\ Len(cs.applied[i].manifests) > 0
         /\ \A j \in 1..Len(cs.applied[i].manifests) :
              /\ Annotated(cs.applied[i].manifests[j])
              /\ cs.applied[i].manifests[j].name = cs.repo[j].name
    /\ K8sReturned =>
         /\ cs.status = STAGE_SUCCESS <=> (Len(cs.applied) = 1 /\ cs.applied[1].ok)
         /\ cs.status # STAGE_SUCCESS => cs.status = STAGE_FAILURE
         /\ (cs.specNil \/ cs.kubectlErr \/ cs.loadErr \/ Len(cs.repo) = 0)
              => (cs.status = STAGE_FAILURE /\ cs.applied = <<>>)

\* C29 witness: two manifests were loaded, annotated and applied, and the
\* stage is a success.
C29_Witness ==
  /\ K8sPrimary
  /\ K8sReturned
  /\ Len(cs.repo) = 2
  /\ Len(cs.applied) = 1
  /\ cs.applied[1].ok
  /\ Annotated(cs.applied[1].manifests[2])
  /\ cs.status = STAGE_SUCCESS
====
